---------------------------- MODULE Spec2Model ----------------------------
(***************************************************************************)
(* EmailGather: the run of gather.py main() as a state machine, together   *)
(* with the text functions it applies to anchor hrefs (str.replace,        *)
(* re.match, the `in` substring test), get_school_links on one document,   *)
(* and CDEScraper.scrape_schools of cde_gather.py.  Strings are TLA+       *)
(* strings; the pages returned by the network are sequences of anchor      *)
(* hrefs in document order, chosen when a page is fetched.                 *)
(***************************************************************************)
EXTENDS Integers, Sequences, FiniteSets, TLC

VARIABLES
    public,         \* sys.argv[2].lower() = '-p'
    dynamic,        \* sys.argv[1].lower() = 'true'
    pc,             \* position of main(): start, ploop, iloop, seek, mainpass, next, done, raised
    driver,         \* the webdriver: "none", "open", "quit"
    curl,           \* main's variable curl: 0 is None, otherwise the id of a pycurl.Curl
    opened,         \* number of pycurl.Curl objects created so far (ids 1..opened)
    closed,         \* ids of the pycurl.Curl objects on which close() was called
    school_links,   \* the links not yet iterated: a list (public), a set (international)
    all_emails,     \* the set all_emails
    failed,         \* the set failed (international mode)
    org,            \* the loop body's locals: url, soup, pos, contact_url, failed_contact
    trace,          \* what the passes of the current organization did (history)
    ledger,         \* per-run history: organizations processed, and how
    emails_txt,     \* lines of emails.txt, or Unwritten
    failed_txt,     \* lines of failed.txt, or Unwritten
    txt,            \* the text pipeline applied to one href: href, candidate, accepted
    web,            \* what the network serves: any page, or a fixed page per URL
    lnk,            \* one call of get_school_links: the document, the outcome
    cde,            \* one call of CDEScraper.scrape_schools (cde_gather.py)
    dyn,            \* one call of fetch_url_dynamic: the page's controls, the position
    cu              \* line 226 on its own: url, href, contact_url

vars == << public, dynamic, pc, driver, curl, opened, closed, school_links,
           all_emails, failed, org, trace, ledger, emails_txt, failed_txt, txt,
           web, lnk, cde, dyn, cu >>

runVars == << public, dynamic, pc, driver, curl, opened, closed, school_links,
              all_emails, failed, org, trace, ledger, emails_txt, failed_txt, web >>

-----------------------------------------------------------------------------
(* Bounds *)

MaxAnchors == 2     \* anchors per fetched page
NumOrgs == 2        \* entries of the international school_links set
MaxPieces == 5      \* pieces concatenated into an href of the text pipeline
MaxListing == 3     \* anchors, or h3 entries, of a document given to get_school_links
MaxRows == 2        \* rows (after the header) of a CDE listing page
MaxPages == 2       \* CDE listing pages fetched in one call of scrape_schools
MaxClicks == 3      \* times a 'load more' control that goes away stays clickable

-----------------------------------------------------------------------------
(* Text: Python's str and re operations on hrefs *)

Lower == {"a","b","c","d","e","f","g","h","i","j","k","l","m",
          "n","o","p","q","r","s","t","u","v","w","x","y","z"}
Upper == {"A","B","C","D","E","F","G","H","I","J","K","L","M",
          "N","O","P","Q","R","S","T","U","V","W","X","Y","Z"}
Digit == {"0","1","2","3","4","5","6","7","8","9"}

\* the three character classes of the pattern at gather.py:234 and :250
LocalClass == Lower \cup Upper \cup Digit \cup {".", "_", "%", "+", "-"}
DomainClass == Lower \cup Upper \cup Digit \cup {".", "-"}
LabelClass == Lower \cup Upper

At(s, i) == SubSeq(s, i, i)

\* Python's `sub in s`
In(sub, s) == \E i \in 1..(Len(s) - Len(sub) + 1) : SubSeq(s, i, i + Len(sub) - 1) = sub

\* Python's s.replace(old, new): every non-overlapping occurrence of old,
\* found left to right, is replaced; replaced text is not scanned again.
RECURSIVE Replace(_, _, _)
Replace(s, old, new) ==
    IF Len(s) < Len(old) THEN s
    ELSE IF SubSeq(s, 1, Len(old)) = old
         THEN new \o Replace(SubSeq(s, Len(old) + 1, Len(s)), old, new)
         ELSE At(s, 1) \o Replace(SubSeq(s, 2, Len(s)), old, new)

\* href.replace('mailto:', '')
StripMailto(href) == Replace(href, "mailto:", "")

AllIn(s, from, to, class) == \A k \in from..to : At(s, k) \in class

\* The positions at which `$` matches: the end of the string, and just
\* before a newline that is the last character.
DollarEnds(s) ==
    {Len(s)} \cup (IF Len(s) > 0 /\ At(s, Len(s)) = "\n" THEN {Len(s) - 1} ELSE {})

\* re.match(r"^[a-zA-Z0-9._%+-]+@[a-zA-Z0-9.-]+\.[a-zA-Z]{2,}$", s) is not None:
\* some split of s at an '@' (position a) and a '.' (position d) fits the
\* three classes, the match ending where `$` matches.
ReMatch(s) ==
    \E e \in DollarEnds(s) : \E a \in 2..e : \E d \in (a + 2)..(e - 2) :
        /\ At(s, a) = "@"
        /\ At(s, d) = "."
        /\ AllIn(s, 1, a - 1, LocalClass)
        /\ AllIn(s, a + 1, d - 1, DomainClass)
        /\ AllIn(s, d + 1, e, LabelClass)


-----------------------------------------------------------------------------
(* Pages: what BeautifulSoup(...).find_all('a') yields, as the hrefs of the *)
(* anchors in document order; "" is an anchor without href (link.get gives  *)
(* None, which the code treats like the empty string).                      *)

\* hrefs of the anchors of an organization's page
Hrefs == {"/contact", "mailto:info@s.nl", "mailto:info@s", "office@s.nl", "recru@s.nl"}

\* hrefs of the anchors of a contact page
ContactHrefs == {"mailto:info@s.nl", "dir@s.nl", "mailto:info@s", "info@office.nl"}

\* hrefs of the anchors of a public school page
SchoolHrefs == {"", "mailto:info@s.nl", "info@s.nl", " info@s.nl", "Info@s.nl",
                "mailto:info@s"}

AllHrefs == Hrefs \cup ContactHrefs \cup SchoolHrefs

SchoolPages == UNION {[1..n -> SchoolHrefs] : n \in 0..MaxAnchors}

Pages == UNION {[1..n -> Hrefs] : n \in 0..MaxAnchors}

ContactPages == UNION {[1..n -> ContactHrefs] : n \in 0..MaxAnchors}

\* anchors of the public listing page
ListingHrefs == {"", "/over", "/basisscholen/groningen/a/", "/basisscholen/groningen/b/"}

ListingPages == UNION {[1..n -> ListingHrefs] : n \in 0..MaxAnchors}

TARGET_PUBLIC == "basisscholen/groningen"

\* the template passed as newurl at gather.py:179
NEWURL_PUBLIC == "https://scholenopdekaart.nlhrefcontact"

\* the hard-coded set of gather.py:192, cut to NumOrgs entries
SchoolSites == << "https://a.nl/?utm=x", "https://b.nl/?utm=x",
                  "https://c.nl/?utm=x", "https://d.nl/?utm=x" >>

SchoolLinkSet == {SchoolSites[i] : i \in 1..NumOrgs}

\* get_links keeping only the first of equal URLs
RECURSIVE get_links_unique(_, _, _)
get_links_unique(soup, target, newurl) ==
    IF soup = <<>> THEN <<>>
    ELSE LET href == Head(soup)
             rest == get_links_unique(Tail(soup), target, newurl)
             link == Replace(newurl, "href", href)
         IN  IF href # "" /\ In(target, href)
             THEN <<link>> \o SelectSeq(rest, LAMBDA l : l # link)
             ELSE rest

\* get_links with international=False: one rewritten URL per anchor whose
\* href is present and contains target, in document order
RECURSIVE get_links(_, _, _)
get_links(soup, target, newurl) ==
    IF soup = <<>> THEN <<>>
    ELSE LET href == Head(soup)
             rest == get_links(Tail(soup), target, newurl)
         IN  IF href # "" /\ In(target, href)
             THEN <<Replace(newurl, "href", href)>> \o rest
             ELSE rest

\* the contact page's filter with the exclusions of the main page's
has_at_in_href_contact_as_main(href) ==
    /\ \E i \in {"info", "contact", "dir", "administration"} : In(i, href)
    /\ \A g \in {"recru", "www"} : ~In(g, href)

\* the closure has_at_in_href defined for the contact page
has_at_in_href_contact(href) ==
    /\ \E i \in {"info", "contact", "dir", "administration"} : In(i, href)
    /\ \A g \in {"recru", "www", "office"} : ~In(g, href)

\* the closure has_at_in_href defined for the main page
has_at_in_href_main(href) ==
    /\ In("@", href)
    /\ \A g \in {"recru", "www"} : ~In(g, href)

\* The text functions tabulated over the hrefs of the pages (each entry is
\* the function's value, computed once).
Candidate == [h \in AllHrefs |-> StripMailto(h)]
Accepted == [h \in AllHrefs |-> ReMatch(StripMailto(h))]
ContactFilter == [h \in AllHrefs |-> has_at_in_href_contact(h)]
MainFilter == [h \in AllHrefs |-> has_at_in_href_main(h)]
HasContact == [h \in AllHrefs |-> h # "" /\ In("contact", h)]
HasAt == [h \in AllHrefs |-> h # "" /\ In("@", h)]

PassesContactFilter(h) == ContactFilter[h]
PassesMainFilter(h) == MainFilter[h]

\* ContactLoop without the break: every validated address is added
RECURSIVE ContactLoopAll(_, _)
ContactLoopAll(emails, fc) ==
    IF emails = <<>> THEN [added |-> {}, failed_contact |-> fc, sources |-> {}]
    ELSE IF Accepted[Head(emails)]
         THEN LET rest == ContactLoopAll(Tail(emails), FALSE)
              IN  [rest EXCEPT !.added = @ \cup {Candidate[Head(emails)]},
                               !.sources = @ \cup {Head(emails)}]
         ELSE ContactLoopAll(Tail(emails), TRUE)

\* the loop over the filtered anchors of a contact page: the first validated
\* address is added and the loop left; every rejected one sets failed_contact
\* (added: the arguments of the all_emails.add calls; sources: the hrefs of
\* the anchors they were taken from)
RECURSIVE ContactLoop(_, _)
ContactLoop(emails, fc) ==
    IF emails = <<>> THEN [added |-> {}, failed_contact |-> fc, sources |-> {}]
    ELSE IF Accepted[Head(emails)]
         THEN [added |-> {Candidate[Head(emails)]}, failed_contact |-> FALSE,
               sources |-> {Head(emails)}]
         ELSE ContactLoop(Tail(emails), TRUE)

\* MainLoop with a rejected candidate setting failed_contact, as the contact
\* page's loop does
RECURSIVE MainLoopRejectFails(_, _)
MainLoopRejectFails(a_tags, fc) ==
    IF a_tags = <<>> THEN [added |-> {}, failed_contact |-> fc, sources |-> {}]
    ELSE IF Accepted[Head(a_tags)]
         THEN LET rest == MainLoopRejectFails(Tail(a_tags), FALSE)
              IN  [rest EXCEPT !.added = @ \cup {Candidate[Head(a_tags)]},
                               !.sources = @ \cup {Head(a_tags)}]
         ELSE MainLoopRejectFails(Tail(a_tags), TRUE)

\* MainLoop leaving the loop at the first validated address, as the contact
\* page's loop does
RECURSIVE MainLoopFirstOnly(_, _)
MainLoopFirstOnly(a_tags, fc) ==
    IF a_tags = <<>> THEN [added |-> {}, failed_contact |-> fc, sources |-> {}]
    ELSE IF Accepted[Head(a_tags)]
         THEN [added |-> {Candidate[Head(a_tags)]}, failed_contact |-> FALSE,
               sources |-> {Head(a_tags)}]
         ELSE MainLoopFirstOnly(Tail(a_tags), fc)

\* the loop over the filtered anchors of the main page: every validated
\* address is added and clears failed_contact
RECURSIVE MainLoop(_, _)
MainLoop(a_tags, fc) ==
    IF a_tags = <<>> THEN [added |-> {}, failed_contact |-> fc, sources |-> {}]
    ELSE IF Accepted[Head(a_tags)]
         THEN LET rest == MainLoop(Tail(a_tags), FALSE)
              IN  [rest EXCEPT !.added = @ \cup {Candidate[Head(a_tags)]},
                               !.sources = @ \cup {Head(a_tags)}]
         ELSE MainLoop(Tail(a_tags), fc)

\* the set rebound to the addresses just found
MergeOverwrite(emails, added) == IF added = {} THEN emails ELSE added

\* all_emails.update(emails) / all_emails.add(email) on the set all_emails
Merge(emails, added) == emails \cup added

\* the guard of the main-page pass without its condition
RunsMainPassAlways(contact_url, failed_contact) == TRUE

\* the condition guarding the main-page pass
RunsMainPass(contact_url, failed_contact) == contact_url = "" \/ failed_contact

\* the anchor loop left after the first contact page, whatever it yielded
LeavesAnchorLoopAlways(failed_contact) == TRUE

\* `if not failed_contact: break` after the scan of a contact page
LeavesAnchorLoop(failed_contact) == ~failed_contact

\* contact_url for a contact anchor of the page at url
ContactUrl(url, href) == IF In("http", href) THEN href ELSE url \o href

\* index of the first anchor at or after from whose href contains 'contact'; 0 if none
NextContact(soup, from) ==
    LET hits == {k \in from..Len(soup) : HasContact[soup[k]]}
    IN  IF hits = {} THEN 0 ELSE CHOOSE k \in hits : \A j \in hits : k <= j

\* the loop of extract_emails_from_school_page: the first anchor whose href
\* contains '@' gives the result {email}; none gives None (the empty set here)
RECURSIVE FirstAtEmail(_)
FirstAtEmail(soup) ==
    IF soup = <<>> THEN {}
    ELSE IF HasAt[Head(soup)]
         THEN {Candidate[Head(soup)]}
         ELSE FirstAtEmail(Tail(soup))

\* the anchor that loop returns from: the first whose href contains '@'
RECURSIVE FirstAtAnchor(_)
FirstAtAnchor(soup) ==
    IF soup = <<>> THEN {}
    ELSE IF HasAt[Head(soup)]
         THEN {Head(soup)}
         ELSE FirstAtAnchor(Tail(soup))

-----------------------------------------------------------------------------
(* sorted(): Python orders str by code point *)

\* the characters that occur in the strings of this model, in code-point order
Ascii == "\n #%&+-./0123456789:=?@ABCDEFGHIJKLMNOPQRSTUVWXYZ_abcdefghijklmnopqrstuvwxyz"

Ord(c) == CHOOSE i \in 1..Len(Ascii) : At(Ascii, i) = c

RECURSIVE StrLess(_, _)
StrLess(a, b) ==
    IF a = "" THEN b # ""
    ELSE IF b = "" THEN FALSE
    ELSE IF At(a, 1) = At(b, 1) THEN StrLess(SubSeq(a, 2, Len(a)), SubSeq(b, 2, Len(b)))
    ELSE Ord(At(a, 1)) < Ord(At(b, 1))

\* the members of S from the greatest down
RECURSIVE SortedDescending(_)
SortedDescending(S) ==
    IF S = {} THEN <<>>
    ELSE LET m == CHOOSE x \in S : \A y \in S \ {x} : StrLess(y, x)
         IN  <<m>> \o SortedDescending(S \ {m})

RECURSIVE Sorted(_)
Sorted(S) ==
    IF S = {} THEN <<>>
    ELSE LET m == CHOOSE x \in S : \A y \in S \ {x} : StrLess(x, y)
         IN  <<m>> \o Sorted(S \ {m})

-----------------------------------------------------------------------------
(* The run of main() *)

NoOrg == [url |-> "", soup |-> <<>>, pos |-> 0, contact_url |-> "", failed_contact |-> FALSE]

\* history of the organization being resolved: contact pages fetched, the
\* addresses each pass added, whether the main-page pass ran, the validated
\* candidates (document order) of the page scanned last, all_emails as it
\* was when the organization's iteration began, and the hrefs of the anchors
\* whose address each pass added
NoTrace == [contacts |-> 0, fromContact |-> {}, fromMain |-> {}, mainRan |-> FALSE,
            pass |-> "none", valid |-> <<>>, before |-> {},
            srcContact |-> {}, srcMain |-> {}]

\* history of the run, of the organizations whose loop body completed: those
\* with no 'contact' and no '@' anchor on the main page, and those for which
\* no pass found a validated address; the organizations whose fetch raised;
\* and the hrefs of the anchors whose address was put into all_emails
NoLedger == [bare |-> {}, dry |-> {}, raised |-> {}, sources |-> {}]

Unwritten == [written |-> FALSE, lines |-> <<>>]

File(lines) == [written |-> TRUE, lines |-> lines]

TxtIdle == [pc |-> "idle", href |-> "", candidate |-> "", accepted |-> FALSE]

\* the network of a run whose pages are chosen when they are fetched
AnyWeb == [fixed |-> FALSE, sites |-> <<>>]

\* what fetch_url_dynamic can return for the main page of the site at url,
\* and for a contact page of that site
MainPagesAt(url) == IF web.fixed THEN {web.sites[url].main} ELSE Pages
ContactPagesAt(url) == IF web.fixed THEN {web.sites[url].contact} ELSE ContactPages

LnkIdle == [pc |-> "idle"]

CdeIdle == [pc |-> "idle"]

DynIdle == [pc |-> "idle"]

CuIdle == [pc |-> "idle"]

\* the stripped candidates the validation accepts, in document order
RECURSIVE Validated(_)
Validated(hrefs) ==
    IF hrefs = <<>> THEN <<>>
    ELSE (IF Accepted[Head(hrefs)] THEN <<Candidate[Head(hrefs)]>> ELSE <<>>)
         \o Validated(Tail(hrefs))

Range(f) == {f[i] : i \in DOMAIN f}

\* line 170 and the start of main()
RunStart ==
    /\ pc = "start"
    /\ driver = "none"
    /\ curl = 0
    /\ opened = 0
    /\ closed = {}
    /\ school_links = IF public THEN <<>> ELSE {}
    /\ all_emails = {}
    /\ failed = {}
    /\ org = NoOrg
    /\ trace = NoTrace
    /\ ledger = NoLedger
    /\ emails_txt = Unwritten
    /\ failed_txt = Unwritten

RunInit ==
    /\ public \in BOOLEAN
    /\ dynamic \in BOOLEAN
    /\ RunStart

NoMoreLinks == IF public THEN school_links = <<>> ELSE school_links = {}

\* lines 174-180: the listing is fetched (by the browser, or by a pycurl
\* handle that get_school_links creates and drops) and the links taken
FetchLinks ==
    /\ pc = "start" /\ public
    /\ \E listing \in ListingPages :
          school_links' = get_links(listing, TARGET_PUBLIC, NEWURL_PUBLIC)
    /\ driver' = IF dynamic THEN "open" ELSE driver
    /\ opened' = IF dynamic THEN opened ELSE opened + 1
    /\ pc' = "ploop"
    /\ UNCHANGED << public, dynamic, curl, closed, all_emails, failed, org, trace,
                    ledger, emails_txt, failed_txt, txt,
                    web, lnk, cde, dyn, cu >>

\* the fetch of the listing raises (driver.get, or c.perform)
FetchLinksRaises ==
    /\ pc = "start" /\ public
    /\ driver' = IF dynamic THEN "open" ELSE driver
    /\ opened' = IF dynamic THEN opened ELSE opened + 1
    /\ pc' = "raised"
    /\ UNCHANGED << public, dynamic, curl, closed, school_links, all_emails, failed,
                    org, trace, ledger, emails_txt, failed_txt, txt,
                    web, lnk, cde, dyn, cu >>

\* the handle fetch_url_static uses when given c: a new one when c is None
HandleFor(c) == IF c = 0 THEN opened + 1 ELSE c

\* the argument `curl if all_emails else None`
CurlArg == IF all_emails # {} THEN curl ELSE 0

\* lines 182-185, one iteration: extract_emails_from_school_page and the update
ExtractSchool ==
    /\ pc = "ploop" /\ school_links # <<>>
    /\ \E page \in SchoolPages :
          LET url == Head(school_links)
              emails == FirstAtEmail(page)
          IN  /\ all_emails' = Merge(all_emails, emails)
              /\ ledger' = [ledger EXCEPT
                               !.dry = IF emails = {} THEN @ \cup {url} ELSE @,
                               !.sources = @ \cup FirstAtAnchor(page)]
    /\ curl' = IF dynamic THEN 0 ELSE HandleFor(CurlArg)
    /\ opened' = IF ~dynamic /\ CurlArg = 0 THEN opened + 1 ELSE opened
    /\ school_links' = Tail(school_links)
    /\ UNCHANGED << public, dynamic, pc, driver, closed, failed, org, trace,
                    emails_txt, failed_txt, txt,
                    web, lnk, cde, dyn, cu >>

\* the fetch of a school page raises: the exception leaves main()
ExtractSchoolRaises ==
    /\ pc = "ploop" /\ school_links # <<>>
    /\ opened' = IF ~dynamic /\ CurlArg = 0 THEN opened + 1 ELSE opened
    /\ ledger' = [ledger EXCEPT !.raised = @ \cup {Head(school_links)}]
    /\ pc' = "raised"
    /\ UNCHANGED << public, dynamic, driver, curl, closed, school_links, all_emails,
                    failed, org, trace, emails_txt, failed_txt, txt,
                    web, lnk, cde, dyn, cu >>

\* lines 188-192
BeginInternational ==
    /\ pc = "start" /\ ~public
    /\ driver' = "open"
    /\ failed' = {}
    /\ school_links' = SchoolLinkSet
    /\ pc' = "iloop"
    /\ UNCHANGED << public, dynamic, curl, opened, closed, all_emails, org, trace,
                    ledger, emails_txt, failed_txt, txt,
                    web, lnk, cde, dyn, cu >>

\* lines 219-222: the next url of the set (in whatever order the set
\* iterates) and its main page
FetchMain ==
    /\ pc = "iloop" /\ school_links # {}
    /\ \E url \in school_links : \E page \in MainPagesAt(url) :
          /\ org' = [url |-> url, soup |-> page, pos |-> NextContact(page, 1),
                     contact_url |-> "", failed_contact |-> FALSE]
          /\ school_links' = school_links \ {url}
          /\ pc' = IF NextContact(page, 1) = 0 THEN "mainpass" ELSE "seek"
    /\ trace' = [NoTrace EXCEPT !.before = all_emails]
    /\ UNCHANGED << public, dynamic, driver, curl, opened, closed, all_emails, failed,
                    ledger, emails_txt, failed_txt, txt,
                    web, lnk, cde, dyn, cu >>

FetchMainRaises ==
    /\ pc = "iloop" /\ school_links # {}
    /\ \E url \in school_links :
          /\ ledger' = [ledger EXCEPT !.raised = @ \cup {url}]
          /\ school_links' = school_links \ {url}
    /\ pc' = "raised"
    /\ UNCHANGED << public, dynamic, driver, curl, opened, closed, all_emails, failed,
                    org, trace, emails_txt, failed_txt, txt,
                    web, lnk, cde, dyn, cu >>

\* lines 225-241 for the contact anchor at org.pos: the contact page is
\* fetched and scanned, then the anchor loop is left or goes on to the next
\* contact anchor
FetchContact ==
    /\ pc = "seek"
    /\ \E page2 \in ContactPagesAt(org.url) :
          LET emails == SelectSeq(page2, PassesContactFilter)
              r == ContactLoop(emails, org.failed_contact)
              next == NextContact(org.soup, org.pos + 1)
              leave == LeavesAnchorLoop(r.failed_contact) \/ next = 0
          IN  /\ all_emails' = Merge(all_emails, r.added)
              /\ org' = [org EXCEPT
                            !.contact_url = ContactUrl(org.url, org.soup[org.pos]),
                            !.failed_contact = r.failed_contact,
                            !.pos = IF leave THEN @ ELSE next]
              /\ pc' = IF leave THEN "mainpass" ELSE "seek"
              /\ trace' = [trace EXCEPT
                              !.contacts = @ + 1,
                              !.fromContact = @ \cup r.added,
                              !.srcContact = @ \cup r.sources,
                              !.pass = "contact",
                              !.valid = Validated(emails)]
              /\ ledger' = [ledger EXCEPT !.sources = @ \cup r.sources]
    /\ UNCHANGED << public, dynamic, driver, curl, opened, closed, school_links, failed,
                    emails_txt, failed_txt, txt,
                    web, lnk, cde, dyn, cu >>

FetchContactRaises ==
    /\ pc = "seek"
    /\ org' = [org EXCEPT !.contact_url = ContactUrl(org.url, org.soup[org.pos])]
    /\ ledger' = [ledger EXCEPT !.raised = @ \cup {org.url}]
    /\ pc' = "raised"
    /\ UNCHANGED << public, dynamic, driver, curl, opened, closed, school_links,
                    all_emails, failed, trace, emails_txt, failed_txt, txt,
                    web, lnk, cde, dyn, cu >>

\* lines 243-254, which end the loop body
MainPass ==
    /\ pc = "mainpass"
    /\ LET runs == RunsMainPass(org.contact_url, org.failed_contact)
           a_tags == SelectSeq(org.soup, PassesMainFilter)
           r == IF runs THEN MainLoop(a_tags, org.failed_contact)
                ELSE [added |-> {}, failed_contact |-> org.failed_contact, sources |-> {}]
       IN  /\ all_emails' = Merge(all_emails, r.added)
           /\ failed' = IF runs /\ r.failed_contact THEN failed \cup {org.url} ELSE failed
           /\ org' = [org EXCEPT !.failed_contact = r.failed_contact]
           /\ trace' = IF runs
                       THEN [trace EXCEPT !.mainRan = TRUE, !.fromMain = r.added,
                                          !.srcMain = r.sources,
                                          !.pass = "main", !.valid = Validated(a_tags)]
                       ELSE trace
           /\ ledger' = [ledger EXCEPT
                            !.bare = IF \A k \in DOMAIN org.soup :
                                            ~HasContact[org.soup[k]] /\ ~HasAt[org.soup[k]]
                                     THEN @ \cup {org.url} ELSE @,
                            !.dry = IF trace.fromContact = {} /\ r.added = {}
                                    THEN @ \cup {org.url} ELSE @,
                            !.sources = @ \cup r.sources]
    /\ pc' = "next"
    /\ UNCHANGED << public, dynamic, driver, curl, opened, closed, school_links,
                    emails_txt, failed_txt, txt,
                    web, lnk, cde, dyn, cu >>

\* the loop goes on to its next iteration (line 219): the body's locals are dead
NextOrg ==
    /\ pc = "next"
    /\ org' = NoOrg
    /\ trace' = NoTrace
    /\ pc' = "iloop"
    /\ UNCHANGED << public, dynamic, driver, curl, opened, closed, school_links,
                    all_emails, failed, ledger, emails_txt, failed_txt, txt,
                    web, lnk, cde, dyn, cu >>

\* lines 255-270: failed.txt (international), the close, emails.txt
Finish ==
    /\ pc \in {"ploop", "iloop"} /\ NoMoreLinks
    /\ failed_txt' = IF public THEN failed_txt ELSE File(Sorted(failed))
    /\ closed' = IF curl # 0 THEN closed \cup {curl} ELSE closed
    /\ driver' = IF curl = 0 /\ driver = "open" THEN "quit" ELSE driver
    /\ emails_txt' = File(Sorted(all_emails))
    /\ pc' = "done"
    /\ UNCHANGED << public, dynamic, curl, opened, school_links, all_emails, failed,
                    org, trace, ledger, txt,
                    web, lnk, cde, dyn, cu >>

Init ==
    /\ RunInit
    /\ web = AnyWeb /\ txt = TxtIdle /\ lnk = LnkIdle /\ cde = CdeIdle /\ dyn = DynIdle /\ cu = CuIdle

Next ==
    \/ FetchLinks
    \/ FetchLinksRaises
    \/ ExtractSchool
    \/ ExtractSchoolRaises
    \/ BeginInternational
    \/ FetchMain
    \/ FetchMainRaises
    \/ FetchContact
    \/ FetchContactRaises
    \/ MainPass
    \/ NextOrg
    \/ Finish

Spec == Init /\ [][Next]_vars

RunEnded == pc \in {"done", "raised"}

-----------------------------------------------------------------------------
(* The international run over a network that serves one fixed main page    *)
(* and one fixed contact page per site, the set school_links being         *)
(* iterated in any order.                                                   *)

OrderSites ==
    { [main |-> <<>>, contact |-> <<>>],
      [main |-> <<"/contact">>, contact |-> <<"mailto:info@s.nl">>],
      [main |-> <<"/contact">>, contact |-> <<"mailto:info@s">>],
      [main |-> <<"/contact">>, contact |-> <<"dir@s.nl", "mailto:info@s.nl">>],
      [main |-> <<"office@s.nl", "mailto:info@s.nl">>, contact |-> <<>>],
      [main |-> <<"/contact", "office@s.nl">>, contact |-> <<"mailto:info@s">>] }

OrderInit ==
    /\ public = FALSE
    /\ dynamic \in BOOLEAN
    /\ RunStart
    /\ web \in {[fixed |-> TRUE, sites |-> f] : f \in [SchoolLinkSet -> OrderSites]}
    /\ txt = TxtIdle /\ lnk = LnkIdle /\ cde = CdeIdle /\ dyn = DynIdle /\ cu = CuIdle

OrderNext ==
    \/ BeginInternational
    \/ FetchMain
    \/ FetchMainRaises
    \/ FetchContact
    \/ FetchContactRaises
    \/ MainPass
    \/ NextOrg
    \/ Finish

OrderSpec == OrderInit /\ [][OrderNext]_vars

-----------------------------------------------------------------------------
(* get_school_links on its own: one call on a parsed document, in either    *)
(* mode.  A document is its anchors' hrefs (document order), whether it has *)
(* the element div#cities-schools and, inside that element, its h3.mb20    *)
(* entries; an entry is the hrefs of the anchors in it (none, or one).      *)

TARGET_INTERNATIONAL == "/in/"

\* the template passed as newurl in international mode (line 196)
NEWURL_INTERNATIONAL == "href"

H3Hrefs == {"", "/over", "/in/amsterdam", "/in/delft"}

H3s == {<<>>} \cup {<<h>> : h \in H3Hrefs}

Documents ==
    {[anchors |-> a, container |-> FALSE, h3s |-> <<>>] :
        a \in UNION {[1..n -> ListingHrefs] : n \in 0..MaxListing}}
    \cup {[anchors |-> <<>>, container |-> TRUE, h3s |-> e] :
        e \in UNION {[1..n -> H3s] : n \in 0..MaxListing}}

\* what a call gives back: a list, or an exception
Returns(links) == [raised |-> FALSE, links |-> links]
Raises == [raised |-> TRUE, links |-> <<>>]

\* get_links with international=True: link.find('a') is None for an entry
\* without anchor, and None.get raises AttributeError
RECURSIVE get_links_international(_, _)
get_links_international(soup, target) ==
    IF soup = <<>> THEN Returns(<<>>)
    ELSE IF Head(soup) = <<>> THEN Raises
    ELSE LET href == Head(soup)[1]
             rest == get_links_international(Tail(soup), target)
         IN  IF rest.raised THEN Raises
             ELSE IF href # "" /\ In(target, href)
                  THEN Returns(<<href>> \o rest.links)
                  ELSE rest

\* get_school_links taking a missing container for an empty one
get_school_links_lenient(doc, target, newurl, international) ==
    IF international
    THEN IF doc.container THEN get_links_international(doc.h3s, target)
                          ELSE Returns(<<>>)
    ELSE Returns(get_links(doc.anchors, target, newurl))

\* get_school_links given the page source: soup.find('div', id=...) is None
\* when the element is absent, and None.find_all raises AttributeError
get_school_links(doc, target, newurl, international) ==
    IF international
    THEN IF doc.container THEN get_links_international(doc.h3s, target)
                          ELSE Raises
    ELSE Returns(get_links(doc.anchors, target, newurl))

LnkInit ==
    /\ public = FALSE
    /\ dynamic = FALSE
    /\ RunStart
    /\ web = AnyWeb /\ txt = TxtIdle /\ cde = CdeIdle /\ dyn = DynIdle /\ cu = CuIdle
    /\ lnk \in {[pc |-> "call", international |-> i, doc |-> d, links |-> <<>>] :
                   i \in BOOLEAN, d \in Documents}

LnkOutcome ==
    IF lnk.international
    THEN get_school_links(lnk.doc, TARGET_INTERNATIONAL, NEWURL_INTERNATIONAL, TRUE)
    ELSE get_school_links(lnk.doc, TARGET_PUBLIC, NEWURL_PUBLIC, FALSE)

\* the call returns its list
LnkReturn ==
    /\ lnk.pc = "call"
    /\ ~LnkOutcome.raised
    /\ lnk' = [lnk EXCEPT !.pc = "returned", !.links = LnkOutcome.links]
    /\ UNCHANGED << runVars, txt, cde, dyn, cu >>

\* the call ends in an exception, which its caller gets
LnkRaise ==
    /\ lnk.pc = "call"
    /\ LnkOutcome.raised
    /\ lnk' = [lnk EXCEPT !.pc = "raised"]
    /\ UNCHANGED << runVars, txt, cde, dyn, cu >>

LnkNext ==
    \/ LnkReturn
    \/ LnkRaise

LnkSpec == LnkInit /\ [][LnkNext]_vars

-----------------------------------------------------------------------------
(* cde_gather.py: one call of CDEScraper.scrape_schools(num_schools).  A    *)
(* listing page is its table rows after the header, in order; a row either  *)
(* yields a school (name, CDS code) or is passed over (fewer than four      *)
(* cells, no anchor, no cdscode in the href).  The school of row k of page  *)
(* p is named and coded by (p, k).                                          *)

\* num_schools = None
None == -1

\* 'items': '500', and the 500 of lines 139 and 151
PAGE_ITEMS == 500

\* the 52 of line 139
TOTAL_PAGES == 52

NumSchoolsInputs == {None, 0, 1, 2, PAGE_ITEMS, PAGE_ITEMS + 1}

\* the rows of a listing page: TRUE for a row that yields a school
ListingRows == UNION {[1..n -> BOOLEAN] : n \in 0..MaxRows}

\* a page with more school rows than 'items' asks for
LongPage == [k \in 1..(PAGE_ITEMS + 1) |-> TRUE]

\* the pages a call can be served: the long page only when the call has a
\* target (without one, every row of every page becomes a row of the result)
ListingRowsFor(num) == IF num = None THEN ListingRows ELSE ListingRows \cup {LongPage}

SchoolAt(page, k) == [name |-> <<"school", page, k>>, code |-> <<"cds", page, k>>]

\* the dict get_administrator_info returns from its except clause
EmptyInfo == [names |-> "", titles |-> "", emails |-> "", phones |-> ""]

\* the dict it returns for a detail page with one administrator
FoundInfo == [names |-> "A. Admin", titles |-> "Principal",
              emails |-> "admin@school.org", phones |-> "(555) 555-5555"]

\* the positions of the rows that yield a school, in order
QualifyingRows(rows) == SelectSeq([k \in 1..Len(rows) |-> k], LAMBDA k : rows[k])

\* CDEScraper.get_school_links(page, limit) on a page that was fetched: the
\* schools of the qualifying rows, the loop being left once limit of them are
\* collected; limit is 0 for None
cde_get_school_links(rows, page, limit) ==
    LET q == QualifyingRows(rows)
        n == IF limit # 0 /\ limit < Len(q) THEN limit ELSE Len(q)
    IN  [j \in 1..n |-> SchoolAt(page, q[j])]

total_pages(num) == IF num = None THEN TOTAL_PAGES ELSE (num \div PAGE_ITEMS) + 1

\* remaining <= 0, remaining < 500 and len(all_data) >= schools_needed, where
\* schools_needed is infinite for None
NoneRemaining(num, all_data) == num # None /\ num - Len(all_data) <= 0
Limit(num, all_data) ==
    IF num # None /\ num - Len(all_data) < PAGE_ITEMS THEN num - Len(all_data) ELSE 0

\* the check of line 157 never true
EnoughNever(num, all_data) == FALSE

\* len(all_data) >= schools_needed (line 157)
Enough(num, all_data) == num # None /\ Len(all_data) >= num

RowOf(school, info) ==
    [name |-> school.name, names |-> info.names, titles |-> info.titles,
     emails |-> info.emails, phones |-> info.phones, code |-> school.code]

\* the append of lines 170-177 left out when nothing was found
AppendedIfFound(all_data, school, info) ==
    IF info = EmptyInfo THEN all_data ELSE Append(all_data, RowOf(school, info))

\* all_data.append({...}) of lines 170-177
Appended(all_data, school, info) == Append(all_data, RowOf(school, info))

\* listed: the lists get_school_links returned, one after the other;
\* unfetched: the CDS codes whose detail fetch failed; fetches: the calls of
\* get_school_links; errors: the pages whose fetch raised; empty: the pages
\* fetched that yielded no school (history)
CdeStart(num) ==
    [pc |-> "page", num |-> num, page |-> 0, all_data |-> <<>>, schools |-> <<>>,
     listed |-> <<>>, unfetched |-> {}, fetches |-> 0, errors |-> {}, empty |-> {},
     csv |-> Unwritten]

CdeInit ==
    /\ public = FALSE
    /\ dynamic = FALSE
    /\ RunStart
    /\ web = AnyWeb /\ txt = TxtIdle /\ lnk = LnkIdle /\ dyn = DynIdle /\ cu = CuIdle
    /\ cde \in {CdeStart(num) : num \in NumSchoolsInputs}

\* the finally clause: the rows are written and returned
CdeEnded == [cde EXCEPT !.pc = "done", !.csv = File(cde.all_data)]

\* lines 146-154: a listing page is fetched and yields schools
CdeFetchListing ==
    /\ cde.pc = "page"
    /\ cde.page < total_pages(cde.num) /\ cde.page < MaxPages
    /\ ~NoneRemaining(cde.num, cde.all_data)
    /\ \E rows \in ListingRowsFor(cde.num) :
          LET schools == cde_get_school_links(rows, cde.page, Limit(cde.num, cde.all_data))
          IN  /\ schools # <<>>
              /\ cde' = [cde EXCEPT !.pc = "school", !.schools = schools,
                                    !.listed = @ \o schools, !.fetches = @ + 1]
    /\ UNCHANGED << runVars, txt, lnk, dyn, cu >>

\* the page yields no school: the page loop is left
CdeFetchListingEmpty ==
    /\ cde.pc = "page"
    /\ cde.page < total_pages(cde.num) /\ cde.page < MaxPages
    /\ ~NoneRemaining(cde.num, cde.all_data)
    /\ \E rows \in ListingRowsFor(cde.num) :
          /\ cde_get_school_links(rows, cde.page, Limit(cde.num, cde.all_data)) = <<>>
          /\ cde' = [CdeEnded EXCEPT !.fetches = @ + 1, !.empty = @ \cup {cde.page}]
    /\ UNCHANGED << runVars, txt, lnk, dyn, cu >>

\* the fetch of the page raises: get_school_links returns [] (lines 53-55)
CdeFetchListingFails ==
    /\ cde.pc = "page"
    /\ cde.page < total_pages(cde.num) /\ cde.page < MaxPages
    /\ ~NoneRemaining(cde.num, cde.all_data)
    /\ cde' = [CdeEnded EXCEPT !.fetches = @ + 1, !.errors = @ \cup {cde.page}]
    /\ UNCHANGED << runVars, txt, lnk, dyn, cu >>

\* lines 160-177 for the next school of the page, its detail page fetched
CdeProcessSchool ==
    /\ cde.pc = "school" /\ cde.schools # <<>>
    /\ ~Enough(cde.num, cde.all_data)
    /\ cde' = [cde EXCEPT !.all_data = Appended(@, Head(cde.schools), FoundInfo),
                          !.schools = Tail(@)]
    /\ UNCHANGED << runVars, txt, lnk, dyn, cu >>

\* the same when the fetch of the detail page raises inside
\* get_administrator_info (lines 129-131); the fetch fails only for schools
\* of a list taken from the first MaxRows rows of a page
CdeProcessSchoolUnfetched ==
    /\ cde.pc = "school" /\ cde.schools # <<>>
    /\ cde.schools[Len(cde.schools)].code[3] <= MaxRows
    /\ ~Enough(cde.num, cde.all_data)
    /\ cde' = [cde EXCEPT !.all_data = Appended(@, Head(cde.schools), EmptyInfo),
                          !.schools = Tail(@),
                          !.unfetched = @ \cup {Head(cde.schools).code}]
    /\ UNCHANGED << runVars, txt, lnk, dyn, cu >>

\* the loop over the page's schools ends (exhausted, or line 157's break)
CdeNextPage ==
    /\ cde.pc = "school"
    /\ cde.schools = <<>> \/ Enough(cde.num, cde.all_data)
    /\ cde' = [cde EXCEPT !.pc = "page", !.page = @ + 1, !.schools = <<>>]
    /\ UNCHANGED << runVars, txt, lnk, dyn, cu >>

\* the page loop ends: range exhausted, or remaining <= 0 (line 148)
CdeFinish ==
    /\ cde.pc = "page"
    /\ cde.page >= total_pages(cde.num) \/ NoneRemaining(cde.num, cde.all_data)
    /\ cde' = CdeEnded
    /\ UNCHANGED << runVars, txt, lnk, dyn, cu >>

CdeNext ==
    \/ CdeFetchListing
    \/ CdeFetchListingEmpty
    \/ CdeFetchListingFails
    \/ CdeProcessSchool
    \/ CdeProcessSchoolUnfetched
    \/ CdeNextPage
    \/ CdeFinish

CdeSpec == CdeInit /\ [][CdeNext]_vars

-----------------------------------------------------------------------------
(* fetch_url_dynamic on its own: one call on a page whose behaviour is      *)
(* fixed beforehand.  The page has the cookie-consent button or not; its    *)
(* 'load more' control is clickable a number of times and then gone, or is  *)
(* clickable every time it is waited for; a click on it goes through or     *)
(* raises (an exception other than TimeoutException).                       *)

\* a control that is clickable whenever WebDriverWait polls it
Endless == -1

DynPages ==
    {[cookie |-> c, more |-> m, intercepted |-> i] :
        c \in {"absent", "clickable", "intercepted"},
        m \in (0..MaxClicks) \cup {Endless},
        i \in BOOLEAN}

DynInit ==
    /\ public = FALSE
    /\ dynamic = FALSE
    /\ RunStart
    /\ web = AnyWeb /\ txt = TxtIdle /\ lnk = LnkIdle /\ cde = CdeIdle /\ cu = CuIdle
    /\ dyn \in {[pc |-> "get", source |-> src, page |-> pg, clicks |-> 0,
                  consented |-> FALSE, result |-> "none"] :
                   src \in BOOLEAN, pg \in DynPages}

\* line 77, then lines 96-99 when source is False
DynGet ==
    /\ dyn.pc = "get"
    /\ dyn' = IF dyn.source THEN [dyn EXCEPT !.pc = "cookie"]
              ELSE [dyn EXCEPT !.pc = "returned", !.result = "page_source"]
    /\ UNCHANGED << runVars, txt, lnk, cde, cu >>

\* driver.get raises
DynGetRaises ==
    /\ dyn.pc = "get"
    /\ dyn' = [dyn EXCEPT !.pc = "raised"]
    /\ UNCHANGED << runVars, txt, lnk, cde, cu >>

\* lines 79-86: the wait for the cookie-consent button and its click, any
\* exception of either passed over
DynCookie ==
    /\ dyn.pc = "cookie"
    /\ dyn' = [dyn EXCEPT !.pc = "loop", !.consented = (dyn.page.cookie = "clickable")]
    /\ UNCHANGED << runVars, txt, lnk, cde, cu >>

\* lines 87-92, one iteration: the control is clickable and the click goes through
DynClick ==
    /\ dyn.pc = "loop"
    /\ dyn.page.more # 0 /\ ~dyn.page.intercepted
    /\ dyn' = [dyn EXCEPT !.clicks = (@ + 1) % (MaxClicks + 1),
                          !.page.more = IF @ = Endless THEN @ ELSE @ - 1]
    /\ UNCHANGED << runVars, txt, lnk, cde, cu >>

\* the click raises: the exception is not a TimeoutException and leaves the call
DynClickRaises ==
    /\ dyn.pc = "loop"
    /\ dyn.page.more # 0 /\ dyn.page.intercepted
    /\ dyn' = [dyn EXCEPT !.pc = "raised"]
    /\ UNCHANGED << runVars, txt, lnk, cde, cu >>

\* lines 93-96 and 99: the wait times out, the loop ends, the source is returned
DynTimeout ==
    /\ dyn.pc = "loop"
    /\ dyn.page.more = 0
    /\ dyn' = [dyn EXCEPT !.pc = "returned", !.result = "page_source"]
    /\ UNCHANGED << runVars, txt, lnk, cde, cu >>

DynNext ==
    \/ DynGet
    \/ DynGetRaises
    \/ DynCookie
    \/ DynClick
    \/ DynClickRaises
    \/ DynTimeout

\* the interpreter always takes the call's next step
DynSpec == DynInit /\ [][DynNext]_vars /\ WF_vars(DynNext)

-----------------------------------------------------------------------------
(* The contact URL on its own: line 226 for one organization URL and one   *)
(* anchor href containing 'contact'.                                        *)

\* organization URLs: scheme and host, then a path and a query or neither
OrgUrls ==
    {"https://" \o h \o p \o q :
        h \in {"a.nl", "www.b.nl"}, p \in {"", "/", "/en/"}, q \in {"", "?utm=x"}}

\* hrefs of anchors that pass `href and 'contact' in href`
ContactAnchorHrefs ==
    {"/contact", "contact.html", "https://a.nl/contact", "http://c.nl/contact-us",
     "/contact?from=http", "#contact"}

CuInit ==
    /\ public = FALSE
    /\ dynamic = FALSE
    /\ RunStart
    /\ web = AnyWeb /\ txt = TxtIdle /\ lnk = LnkIdle /\ cde = CdeIdle /\ dyn = DynIdle
    /\ cu \in {[pc |-> "href", url |-> u, href |-> h, contact_url |-> ""] :
                  u \in OrgUrls, h \in ContactAnchorHrefs}

\* the href is taken as it is
CuTakeHref ==
    /\ cu.pc = "href"
    /\ In("http", cu.href)
    /\ cu' = [cu EXCEPT !.pc = "url", !.contact_url = ContactUrl(cu.url, cu.href)]
    /\ UNCHANGED << runVars, txt, lnk, cde, dyn >>

\* the href is appended to the organization URL
CuAppendHref ==
    /\ cu.pc = "href"
    /\ ~In("http", cu.href)
    /\ cu' = [cu EXCEPT !.pc = "url", !.contact_url = ContactUrl(cu.url, cu.href)]
    /\ UNCHANGED << runVars, txt, lnk, cde, dyn >>

CuNext ==
    \/ CuTakeHref
    \/ CuAppendHref

CuSpec == CuInit /\ [][CuNext]_vars

-----------------------------------------------------------------------------
(* The text pipeline on its own: one href is stripped (email['href']       *)
(* .replace('mailto:', '')) and the candidate is matched against the        *)
(* pattern, for hrefs built from a few pieces.                              *)

TextPieces == {"mailto:", "a", "1", "_", "@", ".nl", "\n"}

RECURSIVE Join(_)
Join(ps) == IF ps = <<>> THEN "" ELSE Head(ps) \o Join(Tail(ps))

TextInputs == {Join(ps) : ps \in UNION {[1..n -> TextPieces] : n \in 0..MaxPieces}}

TextInit ==
    /\ public = FALSE
    /\ dynamic = FALSE
    /\ RunStart
    /\ web = AnyWeb /\ lnk = LnkIdle /\ cde = CdeIdle /\ dyn = DynIdle /\ cu = CuIdle
    /\ txt \in {[pc |-> "href", href |-> h, candidate |-> "", accepted |-> FALSE] :
                   h \in TextInputs}

\* the candidate text of an anchor (lines 156, 235, 249)
TakeCandidate ==
    /\ txt.pc = "href"
    /\ txt' = [txt EXCEPT !.candidate = StripMailto(txt.href), !.pc = "candidate"]
    /\ UNCHANGED << runVars, lnk, cde, dyn, cu >>

\* the validation of the candidate (lines 234, 250)
Validate ==
    /\ txt.pc = "candidate"
    /\ txt' = [txt EXCEPT !.accepted = ReMatch(txt.candidate), !.pc = "validated"]
    /\ UNCHANGED << runVars, lnk, cde, dyn, cu >>

TextNext ==
    \/ TakeCandidate
    \/ Validate

TextSpec == TextInit /\ [][TextNext]_vars

-----------------------------------------------------------------------------
(* Claims *)

\* s is, as a whole, local@domain.label: one or more characters of the local
\* class, '@', one or more of the domain class, '.', two or more letters
WholeForm(s) ==
    \E a \in 1..Len(s) : \E d \in 1..Len(s) :
        /\ At(s, a) = "@" /\ At(s, d) = "."
        /\ a > 1 /\ d > a + 1 /\ Len(s) >= d + 2
        /\ \A k \in 1..Len(s) :
              \/ k < a /\ At(s, k) \in LocalClass
              \/ k = a
              \/ k > a /\ k < d /\ At(s, k) \in DomainClass
              \/ k = d
              \/ k > d /\ At(s, k) \in LabelClass

\* C1: every string in all_emails, and every line written to emails.txt,
\* has the form local@domain.tld, in both modes.
C1_OnlyValidatedStored ==
    \A e \in all_emails \cup Range(emails_txt.lines) : WholeForm(e)

\* C2: at the end of an international run, every organization whose main page
\* had no 'contact' anchor and no '@' anchor is in the failed set and in failed.txt.
C2_BareOrgFails ==
    (pc = "done" /\ ~public) =>
        (ledger.bare \subseteq failed /\ ledger.bare \subseteq Range(failed_txt.lines))

\* C3: at the end of a run, every processed organization for which no pass
\* found a validated address is recorded in the failures.
C3_DryOrgRecorded ==
    pc = "done" => ledger.dry \subseteq failed

\* C4: when a contact page was fetched and no contact page yielded a validated
\* address, the main-page pass runs and adds every validated address among the
\* main page's '@' anchors that contain neither 'recru' nor 'www'.
C4_FallsThrough ==
    (pc = "next" /\ trace.contacts > 0 /\ trace.fromContact = {}) =>
        /\ trace.mainRan
        /\ Range(Validated(SelectSeq(org.soup, PassesMainFilter))) \subseteq all_emails

\* C5: when a contact page yielded a validated address, the main-page pass is
\* not run for that organization and adds nothing on its behalf.
C5_ContactWins ==
    trace.fromContact # {} => (~trace.mainRan /\ trace.fromMain = {})

\* a contact page resolved the organization while the main page carries a
\* validated address of its own, which was not taken
C5_Witness ==
    /\ pc = "next"
    /\ trace.fromContact # {}
    /\ \E k \in DOMAIN org.soup :
          /\ PassesMainFilter(org.soup[k]) /\ Accepted[org.soup[k]]
          /\ Candidate[org.soup[k]] \notin all_emails

\* C6 as stated: every validated address among the filter-passing anchors of
\* the page scanned last (contact page or main page) is in the address set.
C6_AllValidatedAdded ==
    trace.pass # "none" => Range(trace.valid) \subseteq all_emails

\* C6 amended: the main-page pass adds every validated address among the
\* anchors passing its filter; a contact-page scan that finds validated
\* addresses adds the first of them, in document order, and only that one.
C6_MainAllContactFirst ==
    /\ trace.pass = "main" =>
          (Range(trace.valid) \subseteq all_emails /\ trace.fromMain = Range(trace.valid))
    /\ (trace.pass = "contact" /\ trace.valid # <<>>) =>
          (Head(trace.valid) \in all_emails /\ trace.fromContact = {Head(trace.valid)})

\* the main-page pass met two different validated addresses
C6_Witness ==
    /\ pc = "next"
    /\ trace.pass = "main"
    /\ Cardinality(Range(trace.valid)) >= 2

\* C7: when the fetch of an organization's page raised, the run still ends
\* with that organization in failures, every other organization processed,
\* and both files written.
C7_FetchErrorRecovered ==
    (RunEnded /\ ledger.raised # {}) =>
        /\ ledger.raised \subseteq failed
        /\ NoMoreLinks
        /\ emails_txt.written
        /\ (~public => failed_txt.written)

\* C8: when the run has ended, on any path, every pycurl handle created has
\* been closed and the browser session is not left open.
C8_AllReleased ==
    RunEnded => (closed = 1..opened /\ driver # "open")

\* C9: the validation accepts a candidate exactly when the whole candidate
\* has the form local@domain.label.
C9_AcceptsIffWholeForm ==
    txt.pc = "validated" => (txt.accepted <=> WholeForm(txt.candidate))

\* C10: the candidate is the href without a leading 'mailto:', and is the
\* href itself when the href does not start with 'mailto:'.
C10_LeadingPrefixOnly ==
    txt.pc \in {"candidate", "validated"} =>
        txt.candidate = IF Len(txt.href) >= 7 /\ SubSeq(txt.href, 1, 7) = "mailto:"
                        THEN SubSeq(txt.href, 8, Len(txt.href))
                        ELSE txt.href

\* s without its leading and trailing whitespace
RECURSIVE Trim(_)
Trim(s) ==
    IF s = "" THEN s
    ELSE IF At(s, 1) \in {" ", "\n"} THEN Trim(SubSeq(s, 2, Len(s)))
    ELSE IF At(s, Len(s)) \in {" ", "\n"} THEN Trim(SubSeq(s, 1, Len(s) - 1))
    ELSE s

\* C11: the address set is the set of the recorded anchors' hrefs with the
\* 'mailto:' prefix stripped and surrounding whitespace trimmed, compared as
\* exact strings: hrefs differing only by the prefix or by surrounding
\* whitespace give one entry without surrounding whitespace, and addresses
\* differing in letter case stay distinct.
C11_MergedTrimmed ==
    all_emails = {Trim(StripMailto(Trim(h))) : h \in ledger.sources}

\* C12: merging addresses that are already in the set leaves the set as it
\* was (an organization that yields only addresses recorded before changes
\* nothing), and no address occurs twice: the lines of emails.txt are the
\* members of the set, each once.
C12_MergeIdempotent ==
    /\ (pc = "next" /\ (trace.fromContact \cup trace.fromMain) \subseteq trace.before) =>
          all_emails = trace.before
    /\ emails_txt.written =>
          /\ Range(emails_txt.lines) = all_emails
          /\ Len(emails_txt.lines) = Cardinality(all_emails)

\* an organization yielded an address that an earlier one had yielded, while
\* the set held another address as well
C12_Witness ==
    /\ pc = "next"
    /\ trace.fromContact \cup trace.fromMain # {}
    /\ (trace.fromContact \cup trace.fromMain) \subseteq trace.before
    /\ Cardinality(trace.before) >= 2

\* the href of an anchor is present and contains the target
Qualifies(href) == href # "" /\ In(TARGET_PUBLIC, href)

\* C13: in non-international mode the list returned has one URL for each
\* anchor whose href is present and contains the target, and nothing for any
\* other anchor, in document order, duplicates kept: k qualifying anchors
\* give exactly k URLs.
C13_OnePerQualifyingAnchor ==
    (lnk.pc = "returned" /\ ~lnk.international) =>
        LET q == SelectSeq(lnk.doc.anchors, Qualifies)
        IN  /\ Len(lnk.links) = Len(q)
            /\ \A j \in 1..Len(q) :
                  lnk.links[j] = "https://scholenopdekaart.nl" \o q[j] \o "contact"

\* two qualifying anchors with the same href around a non-qualifying one
C13_Witness ==
    /\ lnk.pc = "returned" /\ ~lnk.international
    /\ Len(lnk.doc.anchors) = 3
    /\ Qualifies(lnk.doc.anchors[1])
    /\ ~Qualifies(lnk.doc.anchors[2])
    /\ lnk.doc.anchors[3] = lnk.doc.anchors[1]
    /\ Len(lnk.links) = 2

\* C14: in international mode a call on a document without the element
\* div#cities-schools ends in an exception its caller gets; such a call never
\* returns a list.
C14_MissingContainerRaises ==
    (lnk.pc # "call" /\ lnk.international /\ ~lnk.doc.container) => lnk.pc = "raised"

\* an international call on a document without the container has ended
C14_Witness ==
    lnk.pc = "raised" /\ lnk.international /\ ~lnk.doc.container /\ lnk.doc.anchors # <<>>

\* what one organization's iteration yields from the pages of its site alone:
\* the contact page is scanned for each 'contact' anchor in turn until a scan
\* does not fail, then the main page if no contact page was fetched or the
\* last scan failed
RECURSIVE SeekFrom(_, _, _, _)
SeekFrom(site, pos, visited, fc) ==
    IF pos = 0 THEN [visited |-> visited, fc |-> fc, added |-> {}]
    ELSE LET r == ContactLoop(SelectSeq(site.contact, PassesContactFilter), fc)
         IN  IF ~r.failed_contact
             THEN [visited |-> TRUE, fc |-> FALSE, added |-> r.added]
             ELSE SeekFrom(site, NextContact(site.main, pos + 1), TRUE, TRUE)

Resolve(site) ==
    LET c == SeekFrom(site, NextContact(site.main, 1), FALSE, FALSE)
        runs == ~c.visited \/ c.fc
        m == MainLoop(SelectSeq(site.main, PassesMainFilter), c.fc)
    IN  [emails |-> IF runs THEN c.added \cup m.added ELSE c.added,
         failed |-> runs /\ m.failed_contact]

Ascending(lines) == \A i \in 1..Len(lines) : \A j \in 1..Len(lines) :
                        i < j => StrLess(lines[i], lines[j])

\* C15: the lines of emails.txt and of failed.txt are each in ascending
\* order, and they are what the sites of the organization links yield, in
\* whatever order the links were processed.
C15_SortedOrderFree ==
    pc = "done" =>
        /\ Ascending(emails_txt.lines)
        /\ Ascending(failed_txt.lines)
        /\ Range(emails_txt.lines) =
              UNION {Resolve(web.sites[u]).emails : u \in SchoolLinkSet}
        /\ Range(failed_txt.lines) =
              {u \in SchoolLinkSet : Resolve(web.sites[u]).failed}

\* a run over two different sites that wrote two addresses and a failure
C15_Witness ==
    /\ pc = "done"
    /\ Len(emails_txt.lines) >= 2
    /\ Len(failed_txt.lines) >= 1

\* C16: the rows are the schools taken from the listing pages, one row each,
\* in listing order, each with the school's name and CDS code (while a page
\* is being processed, the schools taken so far; schools listed beyond the
\* call's target are not taken); the row of a school whose detail fetch
\* failed is there with empty administrator, email and phone fields.
C16_OneRowPerSchool ==
    LET rows == cde.all_data
    IN  /\ Len(rows) <= Len(cde.listed)
        /\ cde.pc \in {"page", "done"} =>
              \/ Len(rows) = Len(cde.listed)
              \/ cde.num # None /\ Len(rows) = cde.num
        /\ \A i \in 1..Len(rows) :
              /\ rows[i].name = cde.listed[i].name
              /\ rows[i].code = cde.listed[i].code
        /\ \A c \in cde.unfetched : \E i \in 1..Len(rows) :
              /\ rows[i].code = c
              /\ rows[i].names = "" /\ rows[i].titles = ""
              /\ rows[i].emails = "" /\ rows[i].phones = ""
        /\ cde.pc = "done" => cde.csv = File(rows)

\* the detail fetch of a school failed and a later school got its row
C16_Witness ==
    /\ cde.pc = "done"
    /\ \E i \in 1..Len(cde.all_data) : \E j \in 1..Len(cde.all_data) :
          /\ i < j
          /\ cde.all_data[i].code \in cde.unfetched
          /\ cde.all_data[j].code \notin cde.unfetched
          /\ cde.all_data[j].emails # ""

\* number of anchors of soup before position pos whose href contains 'contact'
ContactsBefore(soup, pos) == Cardinality({k \in 1..(pos - 1) : HasContact[soup[k]]})

C18_AtMostOneFromContact ==
    /\ Cardinality(trace.fromContact) <= 1
    /\ trace.fromContact # {} => (pc \in {"mainpass", "next"} /\ ~org.failed_contact)

\* a contact page with two different validated addresses gave one of them
C18_Witness ==
    /\ pc = "mainpass"
    /\ trace.pass = "contact"
    /\ Cardinality(Range(trace.valid)) >= 2
    /\ Cardinality(trace.fromContact) = 1

\* C19: every address an organization's passes add is the stripped href of
\* an anchor that passes the filter of the pass that added it: for a contact
\* page, the href contains one of 'info', 'contact', 'dir', 'administration'
\* and none of 'recru', 'www', 'office'; for the main page, it contains '@'
\* and neither 'recru' nor 'www'.
C19_AddedPassesFilter ==
    /\ trace.fromContact = {StripMailto(h) : h \in trace.srcContact}
    /\ trace.fromMain = {StripMailto(h) : h \in trace.srcMain}
    /\ \A h \in trace.srcContact :
          /\ \E i \in {"info", "contact", "dir", "administration"} : In(i, h)
          /\ \A g \in {"recru", "www", "office"} : ~In(g, h)
    /\ \A h \in trace.srcMain :
          /\ In("@", h)
          /\ \A g \in {"recru", "www"} : ~In(g, h)

\* the main-page pass added an 'office' address from a page that also
\* carries a 'recru' address, which was not added
C19_Witness ==
    /\ pc = "next"
    /\ "office@s.nl" \in trace.srcMain
    /\ \E k \in DOMAIN org.soup : org.soup[k] = "recru@s.nl"
    /\ "recru@s.nl" \notin all_emails

\* C20: in static public mode at most one pycurl handle is created for the
\* school-page fetches (the listing's fetch creates one of its own before
\* them); in the other modes no pycurl handle is created and the one browser
\* session is the only transport.
C20_OneTransport ==
    /\ (public /\ ~dynamic /\ pc # "start") => opened - 1 <= 1
    /\ (dynamic \/ ~public) => (opened = 0 /\ curl = 0)

\* C21: a call with source=True that got its page returns the page content
\* in the end: it gets past the cookie-consent step whether or not the
\* button is there, and its 'load more' loop ends.
C21_FetchReturns ==
    (dyn.pc = "cookie") ~> (dyn.pc = "returned" /\ dyn.result = "page_source")

\* C22: when the fetch of a listing page raised and that page was not the
\* last of the call's range, the call went on to the page after it: at the
\* end, the page after every failed page has been fetched.
C22_BatchContinues ==
    cde.pc = "done" =>
        \A p \in cde.errors :
            (p + 1 < total_pages(cde.num) /\ p + 1 < MaxPages) => cde.fetches > p + 1

\* an href with a scheme of its own
IsAbsolute(href) ==
    \/ (Len(href) >= 7 /\ SubSeq(href, 1, 7) = "http://")
    \/ (Len(href) >= 8 /\ SubSeq(href, 1, 8) = "https://")

\* scheme and host of an https URL: what precedes the first '/', '?' or '#'
\* after 'https://'
Origin(url) ==
    LET stops == {k \in 9..Len(url) : At(url, k) \in {"/", "?", "#"}}
    IN  IF stops = {} THEN url
        ELSE SubSeq(url, 1, (CHOOSE k \in stops : \A j \in stops : k <= j) - 1)

\* a relative href on the origin
AgainstOrigin(url, href) ==
    IF At(href, 1) = "/" THEN Origin(url) \o href ELSE Origin(url) \o "/" \o href

\* C23: the contact URL is the href when the href is absolute, and otherwise
\* the href on the origin (scheme and host) of the organization URL, without
\* that URL's path or query.
C23_ResolvedAgainstOrigin ==
    cu.pc = "url" =>
        cu.contact_url = IF IsAbsolute(cu.href) THEN cu.href
                         ELSE AgainstOrigin(cu.url, cu.href)

\* C24: an organization is in the failed set only if nothing was added to
\* all_emails while it was processed, by a contact-page scan or by the
\* main-page pass: no organization is both the source of an added address
\* and in failed.
C24_FailedOnlyIfNothingAdded ==
    /\ failed \subseteq ledger.dry
    /\ (pc = "next" /\ org.url \in failed) =>
          (trace.fromContact = {} /\ trace.fromMain = {})

\* an organization failed after a contact page and the main-page pass, in a
\* run in which another organization had yielded an address
C24_Witness ==
    /\ pc = "next"
    /\ org.url \in failed
    /\ trace.contacts >= 1 /\ trace.mainRan
    /\ all_emails # {}

\* C25: a call with target n >= 0 never has more than n rows, whatever the
\* pages hold, and returns what it has; it fetches at most (n div 500) + 1
\* listing pages, and none after a page that yielded no school.
C25_AtMostTarget ==
    cde.num # None =>
        /\ Len(cde.all_data) <= cde.num
        /\ cde.pc = "done" => (cde.csv.written /\ Len(cde.csv.lines) <= cde.num)
        /\ cde.fetches <= (cde.num \div 500) + 1
        /\ \A p \in cde.empty \cup cde.errors : cde.fetches = p + 1

\* a call for 500 schools was served a first page listing 501 and ended
\* with 500 rows
C25_Witness ==
    /\ cde.pc = "done"
    /\ cde.num = PAGE_ITEMS
    /\ Len(cde.listed) > PAGE_ITEMS
    /\ Len(cde.all_data) = PAGE_ITEMS

=============================================================================
